---- MODULE Spec2Model ----
(***************************************************************************)
(* Model of gym_vrep/envs/mobile_robot_navigation/navigation.py: the three *)
(* navigation estimators Ideal, Odometry and Gyrodometry.                  *)
(*                                                                         *)
(* Numbers.  The code computes in IEEE doubles and rounds to 3 decimals    *)
(* with np.round.  The model computes in fixed point:                      *)
(*   - lengths (m) and angles (rad) that are stored in a pose, a goal or   *)
(*     an output are integers in units of 1e-4 ("U"); a value rounded to   *)
(*     3 decimals is a multiple of 10 U;                                   *)
(*   - encoder rotations are in 1e-3 rad, gyroscope readings in 1e-3 rad/s *)
(*     and dt in 1e-3 s;                                                   *)
(*   - cos, sin and arctan2 are evaluated by range reduction and Taylor    *)
(*     series on arguments and results in units of 1e-6 (accurate to about *)
(*     2e-6), the unrounded pose update is kept in units of 1e-7 m;        *)
(*   - np.round is round-half-to-even on the exact value.                  *)
(***************************************************************************)
EXTENDS Integers, Naturals, Sequences, FiniteSets, TLC

VARIABLES
    robot,                      \* self._robot: the geometry read at construction
    dt,                         \* self._dt
    kind,                       \* the class of the estimator that was constructed
    pose,                       \* self._pose
    aliased,                    \* self._pose IS the array object the caller passed to reset
    sum_path,                   \* self._sum_path
    previous_angular_velocity,  \* self._previous_angular_velocity
    caller,                     \* the caller's start-pose array: contents now and when made
    out,                        \* the polar_coordinates last returned
    divided_by_zero,            \* a division by self._body_width = 0 was evaluated
    log                         \* history: every call made on the estimator, in order

vars == <<robot, dt, kind, pose, aliased, sum_path, previous_angular_velocity,
          caller, out, divided_by_zero, log>>

\* Bound on the number of reset / compute_position calls in one behaviour.
MaxOps == 3

-----------------------------------------------------------------------------
(* Fixed-point arithmetic                                                  *)

Abs(n) == IF n < 0 THEN -n ELSE n

Sgn(n) == IF n < 0 THEN -1 ELSE IF n > 0 THEN 1 ELSE 0

\* The integer nearest to n / d (d > 0), ties to the even one: np.round / np.rint.
RoundDiv(n, d) ==
    LET q == n \div d
        r == n % d
    IN  IF 2 * r < d THEN q
        ELSE IF 2 * r > d THEN q + 1
        ELSE IF q % 2 = 0 THEN q ELSE q + 1

\* np.round(v, 3) of a value in U.
Round3(v) == 10 * RoundDiv(v, 10)

\* np.pi in units of 1e-6 rad.
PiMicro == 3141593

\* a * b / 1e6 for non-negative a, b below 2e9 / 1e3 (no 32-bit overflow).
MulMicro(a, b) ==
    LET ah == a \div 1000
        al == a % 1000
        bh == b \div 1000
        bl == b % 1000
    IN  ah * bh + (ah * bl + al * bh + (al * bl) \div 1000) \div 1000

\* 1 - x2/(1*2) * (1 - x2/(3*4) * (1 - ...)), the cosine series, x2 = x*x in 1e-6.
RECURSIVE CosSeries(_, _)
CosSeries(x2, k) ==
    IF k > 7 THEN 1000000
    ELSE 1000000 - MulMicro(x2, CosSeries(x2, k + 1)) \div ((2 * k - 1) * (2 * k))

\* np.cos of an angle in 1e-6 rad, result in 1e-6.
CosMicro(a) ==
    LET r == a % (2 * PiMicro)
        s == IF r > PiMicro THEN 2 * PiMicro - r ELSE r
    IN  IF 2 * s > PiMicro
        THEN -CosSeries(MulMicro(PiMicro - s, PiMicro - s), 1)
        ELSE CosSeries(MulMicro(s, s), 1)

\* np.sin of an angle in 1e-6 rad, result in 1e-6.
SinMicro(a) == CosMicro(a - PiMicro \div 2)

\* floor(n * 10^k / d) for 0 <= n < d, by long division.
RECURSIVE DivMicroDigits(_, _, _)
DivMicroDigits(n, d, k) ==
    IF k = 0 THEN 0
    ELSE LET q == (10 * n) \div d
             r == (10 * n) % d
         IN  q * (10 ^ (k - 1)) + DivMicroDigits(r, d, k - 1)

\* n / d in 1e-6 for 0 <= n <= d, d > 0.
DivMicro(n, d) == IF n = d THEN 1000000 ELSE DivMicroDigits(n, d, 6)

\* 1 - u2/3 + u2^2/5 - ..., the arctangent series over u, u2 = u*u in 1e-6.
RECURSIVE AtanSeries(_, _)
AtanSeries(u2, k) ==
    IF k > 8 THEN 0
    ELSE 1000000 \div (2 * k - 1) - MulMicro(u2, AtanSeries(u2, k + 1))

\* arctan of t in [0, 1] (1e-6), result in 1e-6 rad.
AtanMicro(t) ==
    IF t > 414214
    THEN LET u == DivMicro(1000000 - t, 1000000 + t)
         IN  PiMicro \div 4 - MulMicro(u, AtanSeries(MulMicro(u, u), 1))
    ELSE MulMicro(t, AtanSeries(MulMicro(t, t), 1))

\* np.arctan2(y, x) of two differences in U, result in 1e-6 rad; arctan2(0, 0) = 0.
Arctan2(y, x) ==
    IF x = 0 /\ y = 0 THEN 0
    ELSE LET ax == Abs(x)
             ay == Abs(y)
             a0 == IF ay > ax THEN PiMicro \div 2 - AtanMicro(DivMicro(ax, ay))
                   ELSE AtanMicro(DivMicro(ay, ax))
             a1 == IF x < 0 THEN PiMicro - a0 ELSE a0
         IN  IF y < 0 THEN -a1 ELSE a1

\* n * n as the pair <<high, low>> = high * 1e6 + low (squares exceed 32 bits).
Sq(n) ==
    LET a == Abs(n)
        h == a \div 1000
        l == a % 1000
        m == 2 * h * l * 1000 + l * l
    IN  <<h * h + m \div 1000000, m % 1000000>>

AddBig(p, q) ==
    LET lo == p[2] + q[2]
    IN  <<p[1] + q[1] + lo \div 1000000, lo % 1000000>>

LessBig(p, q) == p[1] < q[1] \/ (p[1] = q[1] /\ p[2] < q[2])

\* The least m in lo..hi with s < (10 m + 5)^2.
RECURSIVE NormSearch(_, _, _)
NormSearch(s, lo, hi) ==
    IF lo = hi THEN lo
    ELSE LET mid == (lo + hi) \div 2
         IN  IF LessBig(s, Sq(10 * mid + 5)) THEN NormSearch(s, lo, mid)
             ELSE NormSearch(s, mid + 1, hi)

\* np.round(np.linalg.norm([dx, dy]), 3) in U.
NormRound3(dx, dy) ==
    LET s == AddBig(Sq(dx), Sq(dy))
        m == NormSearch(s, 0, (Abs(dx) + Abs(dy)) \div 10 + 1)
    IN  IF m > 0 /\ s = Sq(10 * m - 5) /\ m % 2 = 1 THEN 10 * (m - 1) ELSE 10 * m

\* delta_path (U) times a cosine or sine (1e-6), in units of 1e-7 m.
PathTimes(delta_path, c) ==
    Sgn(delta_path) * Sgn(c)
      * (Abs(delta_path) * (Abs(c) \div 1000) + (Abs(delta_path) * (Abs(c) % 1000)) \div 1000)

-----------------------------------------------------------------------------
(* The inputs of the model                                                 *)

Pose(x, y, th) == [x |-> x, y |-> y, th |-> th, finite |-> TRUE]

\* A pose array holding nan / inf entries.
NonFinite == [x |-> 0, y |-> 0, th |-> 0, finite |-> FALSE]

\* np.zeros(3)
Zeros == Pose(0, 0, 0)

\* Robot geometries (U): wheel diameter 0.04 m, body width 0.1 m.
Robots == {[wheel_diameter |-> 400, body_width |-> 1000]}

\* A robot whose body width is 0.
DegenerateRobots == {[wheel_diameter |-> 400, body_width |-> 0]}

\* dt of the simulation: 0.05 s.
TickDurations == {50}

Kinds == {"Ideal", "Odometry", "Gyrodometry"}

\* Start poses the caller passes to reset: (0, 0, 0), (1, 0, 1.0) and the
\* unrounded (0.0004, 0.0004, 3.1004).
StartPoses == {Pose(0, 0, 0), Pose(10000, 0, 10000), Pose(4, 4, 31004)}

\* Goals: (1, 0) and (0.0004, 0.0004).
Goals == {[x |-> 10000, y |-> 0], [x |-> 4, y |-> 4]}

Reading(p, l, r, w) == [pose |-> p, encoders |-> <<l, r>>, gyroscope |-> w]

\* What the robot reports during one call: get_pose(), get_encoders_rotations()
\* (left, right) and get_gyroscope_values().
Readings ==
    { Reading(Pose(5000, -2000, 10000), 50000, 50000, 3000),
      Reading(Pose(5000, -2000, 10000), -50000, -50000, -3000),
      Reading(Pose(9999, 1, 33000), 24, 24, 5),
      Reading(Pose(10004, -4, -15708), 0, 1000, 2000),
      Reading(Pose(10000, 0, 0), 0, 0, 0) }

NoReading == Reading(Zeros, 0, 0, 0)

NoGoal == [x |-> 0, y |-> 0]

\* polar_coordinates: (distance, heading_angle) in U.
Polar(d, h) == [distance |-> d, heading_angle |-> h, finite |-> TRUE]

NonFinitePolar == [distance |-> 0, heading_angle |-> 0, finite |-> FALSE]

-----------------------------------------------------------------------------
(* The estimators                                                          *)

\* np.fmod: the remainder has the sign of the dividend.
Fmod(a, m) == Sgn(a) * (Abs(a) % m)

\* The candidate _angle_correction computes in lines 56-60 (1e-6 rad).
Wrapped(angle) ==
    IF angle >= 0 THEN Fmod(angle + PiMicro, 2 * PiMicro) - PiMicro
    ELSE Fmod(angle - PiMicro, 2 * PiMicro) + PiMicro

\* Base._angle_correction of an angle in 1e-6 rad, result in U.  Line 62
\* overwrites the wrapped candidate with np.round(angle, 3) of the argument.
AngleCorrection(angle) ==
    LET new_angle == Wrapped(angle)
    IN  10 * RoundDiv(angle, 1000)

\* self._wheel_radius
WheelRadius(r) == r.wheel_diameter \div 2

\* Mutant: the mean of the two wheel paths taken as their sum.
ComputeDeltaMotionNoHalf(encoders, r) ==
    LET wheels_paths == <<encoders[1] * WheelRadius(r), encoders[2] * WheelRadius(r)>>
    IN  [delta_path |-> 10 * RoundDiv(wheels_paths[1] + wheels_paths[2], 10000),
         delta_beta |-> IF r.body_width = 0 THEN 0
                        ELSE 10 * RoundDiv(wheels_paths[2] - wheels_paths[1], r.body_width),
         beta_finite |-> r.body_width # 0]

\* Mutant: the travelled path taken as an unsigned length.
ComputeDeltaMotionUnsigned(encoders, r) ==
    LET wheels_paths == <<encoders[1] * WheelRadius(r), encoders[2] * WheelRadius(r)>>
    IN  [delta_path |-> 10 * Abs(RoundDiv(wheels_paths[1] + wheels_paths[2], 2 * 10000)),
         delta_beta |-> IF r.body_width = 0 THEN 0
                        ELSE 10 * RoundDiv(wheels_paths[2] - wheels_paths[1], r.body_width),
         beta_finite |-> r.body_width # 0]

\* Odometry.compute_delta_motion without the accumulation into _sum_path:
\* (delta_path, delta_beta) in U; beta_finite is FALSE when the division by
\* _body_width = 0 yields inf or nan.
ComputeDeltaMotion(encoders, r) ==
    LET wheels_paths == <<encoders[1] * WheelRadius(r), encoders[2] * WheelRadius(r)>>
    IN  [delta_path |-> 10 * RoundDiv(wheels_paths[1] + wheels_paths[2], 2 * 10000),
         delta_beta |-> IF r.body_width = 0 THEN 0
                        ELSE 10 * RoundDiv(wheels_paths[2] - wheels_paths[1], r.body_width),
         beta_finite |-> r.body_width # 0]

\* Mutant: the angular velocity rounded without the multiplication by dt.
ComputeRotationNoDt(gyroscope, d) == 10 * gyroscope

\* Gyrodometry.compute_rotation: round(current_angular_velocity * dt, 3) in U.
ComputeRotation(gyroscope, d) == 10 * RoundDiv(gyroscope * d, 1000)

\* Lines 139-145 (and 215-221): sum is the array after the in-place +=,
\* pose the new array np.round makes of it, its heading angle-corrected.
Integrate(p, delta_path, delta_beta, beta_finite) ==
    IF ~p.finite \/ ~beta_finite THEN [sum |-> NonFinite, pose |-> NonFinite]
    ELSE LET angle == 100 * p.th + 50 * delta_beta
             vx == 1000 * p.x + PathTimes(delta_path, CosMicro(angle))
             vy == 1000 * p.y + PathTimes(delta_path, SinMicro(angle))
             vth == p.th + delta_beta
         IN  [sum |-> Pose(RoundDiv(vx, 1000), RoundDiv(vy, 1000), vth),
              pose |-> Pose(10 * RoundDiv(vx, 10000), 10 * RoundDiv(vy, 10000),
                            AngleCorrection(100 * Round3(vth)))]

\* Mutant: the heading error taken as the bearing of the goal, the pose
\* heading not subtracted.
PolarCoordinatesNoHeading(p, goal) ==
    IF ~p.finite THEN NonFinitePolar
    ELSE LET distance == NormRound3(p.x - goal.x, p.y - goal.y)
             theta == AngleCorrection(Arctan2(goal.y - p.y, goal.x - p.x))
         IN  Polar(distance, Round3(theta))

\* Lines 147-154 (92-100, 223-229): distance and heading error to the goal.
PolarCoordinates(p, goal) ==
    IF ~p.finite THEN NonFinitePolar
    ELSE LET distance == NormRound3(p.x - goal.x, p.y - goal.y)
             theta == AngleCorrection(Arctan2(goal.y - p.y, goal.x - p.x))
             heading_angle == AngleCorrection(100 * (theta - p.th))
         IN  Polar(distance, Round3(heading_angle))

\* Lines 89-90: the ground-truth pose rounded, its heading angle-corrected.
IdealPosition(p) ==
    Pose(Round3(p.x), Round3(p.y), AngleCorrection(100 * Round3(p.th)))

\* History entry of a compute_position call: the robot's readings and the
\* goal, self._pose before and after, the array the in-place += left (sum),
\* delta_path, the position the output was computed from and the output.
ComputeEntry(s, goal, before, sum, after, delta_path, position, o) ==
    [op |-> "compute", reading |-> s, goal |-> goal, arg |-> Zeros,
     before |-> before, sum |-> sum, after |-> after, delta_path |-> delta_path,
     position |-> position, out |-> o]

\* History entry of a reset call: the contents of the array passed in,
\* self._pose before and after.
ResetEntry(arg, before, after, o) ==
    [op |-> "reset", reading |-> NoReading, goal |-> NoGoal, arg |-> arg,
     before |-> before, sum |-> after, after |-> after, delta_path |-> 0,
     position |-> after, out |-> o]

\* The array objects the caller may pass to reset: a new array holding a
\* start pose, or the array it passed before.
ResetArgs ==
    {[obj |-> p, orig |-> p, made |-> TRUE] : p \in StartPoses}
      \cup (IF caller.made THEN {caller} ELSE {})

\* Mutant: the position taken from self._pose, not from the robot.
IdealComputePositionStored(s, goal) ==
    /\ kind = "Ideal"
    /\ Len(log) < MaxOps
    /\ LET position == IdealPosition(pose)
       IN  /\ out' = PolarCoordinates(position, goal)
           /\ log' = Append(log, ComputeEntry(s, goal, pose, pose, pose, 0, position, out'))
    /\ UNCHANGED <<robot, dt, kind, pose, aliased, sum_path,
                   previous_angular_velocity, caller, divided_by_zero>>

\* Ideal.compute_position
IdealComputePosition(s, goal) ==
    /\ kind = "Ideal"
    /\ Len(log) < MaxOps
    /\ LET position == IdealPosition(s.pose)
       IN  /\ out' = PolarCoordinates(position, goal)
           /\ log' = Append(log, ComputeEntry(s, goal, pose, pose, pose, 0, position, out'))
    /\ UNCHANGED <<robot, dt, kind, pose, aliased, sum_path,
                   previous_angular_velocity, caller, divided_by_zero>>

\* Ideal.reset
IdealReset(arg) ==
    /\ kind = "Ideal"
    /\ Len(log) < MaxOps
    /\ pose' = arg.obj
    /\ aliased' = TRUE
    /\ caller' = arg
    /\ log' = Append(log, ResetEntry(arg.obj, pose, pose', out))
    /\ UNCHANGED <<robot, dt, kind, sum_path, previous_angular_velocity, out,
                   divided_by_zero>>

\* Odometry.compute_position
OdometryComputePosition(s, goal) ==
    /\ kind = "Odometry"
    /\ Len(log) < MaxOps
    /\ LET m == ComputeDeltaMotion(s.encoders, robot)
           i == Integrate(pose, m.delta_path, m.delta_beta, m.beta_finite)
       IN  /\ sum_path' = sum_path + m.delta_path
           /\ divided_by_zero' = (divided_by_zero \/ robot.body_width = 0)
           /\ caller' = IF aliased THEN [caller EXCEPT !.obj = i.sum] ELSE caller
           /\ pose' = i.pose
           /\ aliased' = FALSE
           /\ out' = PolarCoordinates(i.pose, goal)
           /\ log' = Append(log, ComputeEntry(s, goal, pose, i.sum, i.pose,
                                              m.delta_path, i.pose, out'))
    /\ UNCHANGED <<robot, dt, kind, previous_angular_velocity>>

\* Mutant: reset clears the accumulator and leaves self._pose as it is.
OdometryResetKeepsPose(arg) ==
    /\ kind = "Odometry"
    /\ Len(log) < MaxOps
    /\ caller' = arg
    /\ sum_path' = 0
    /\ log' = Append(log, ResetEntry(arg.obj, pose, pose, out))
    /\ UNCHANGED <<robot, dt, kind, pose, aliased, previous_angular_velocity, out,
                   divided_by_zero>>

\* Odometry.reset
OdometryReset(arg) ==
    /\ kind = "Odometry"
    /\ Len(log) < MaxOps
    /\ pose' = arg.obj
    /\ aliased' = TRUE
    /\ caller' = arg
    /\ sum_path' = 0
    /\ log' = Append(log, ResetEntry(arg.obj, pose, pose', out))
    /\ UNCHANGED <<robot, dt, kind, previous_angular_velocity, out, divided_by_zero>>

\* Gyrodometry.compute_position
GyrodometryComputePosition(s, goal) ==
    /\ kind = "Gyrodometry"
    /\ Len(log) < MaxOps
    /\ LET m == ComputeDeltaMotion(s.encoders, robot)
           delta_beta == ComputeRotation(s.gyroscope, dt)
           i == Integrate(pose, m.delta_path, delta_beta, TRUE)
       IN  /\ sum_path' = sum_path + m.delta_path
           /\ divided_by_zero' = (divided_by_zero \/ robot.body_width = 0)
           /\ previous_angular_velocity' = s.gyroscope
           /\ caller' = IF aliased THEN [caller EXCEPT !.obj = i.sum] ELSE caller
           /\ pose' = i.pose
           /\ aliased' = FALSE
           /\ out' = PolarCoordinates(i.pose, goal)
           /\ log' = Append(log, ComputeEntry(s, goal, pose, i.sum, i.pose,
                                              m.delta_path, i.pose, out'))
    /\ UNCHANGED <<robot, dt, kind>>

\* Mutant: reset leaves self._sum_path and self._previous_angular_velocity.
GyrodometryResetKeepsAccumulators(arg) ==
    /\ kind = "Gyrodometry"
    /\ Len(log) < MaxOps
    /\ pose' = arg.obj
    /\ aliased' = TRUE
    /\ caller' = arg
    /\ log' = Append(log, ResetEntry(arg.obj, pose, pose', out))
    /\ UNCHANGED <<robot, dt, kind, sum_path, previous_angular_velocity, out,
                   divided_by_zero>>

\* Gyrodometry.reset
GyrodometryReset(arg) ==
    /\ kind = "Gyrodometry"
    /\ Len(log) < MaxOps
    /\ pose' = arg.obj
    /\ aliased' = TRUE
    /\ caller' = arg
    /\ sum_path' = 0
    /\ previous_angular_velocity' = 0
    /\ log' = Append(log, ResetEntry(arg.obj, pose, pose', out))
    /\ UNCHANGED <<robot, dt, kind, out, divided_by_zero>>

\* The state the constructors leave (Base.__init__, Odometry.__init__,
\* Gyrodometry.__init__), for the robot geometries in rs.
Constructed(rs) ==
    /\ robot \in rs
    /\ dt \in TickDurations
    /\ kind \in Kinds
    /\ pose = Zeros
    /\ aliased = FALSE
    /\ sum_path = 0
    /\ previous_angular_velocity = 0
    /\ caller = [obj |-> Zeros, orig |-> Zeros, made |-> FALSE]
    /\ out = Polar(0, 0)
    /\ divided_by_zero = FALSE
    /\ log = <<>>

Init == Constructed(Robots)

InitAnyRobot == Constructed(Robots \cup DegenerateRobots)

Next ==
    \/ \E s \in Readings, goal \in Goals : IdealComputePosition(s, goal)
    \/ \E arg \in ResetArgs : IdealReset(arg)
    \/ \E s \in Readings, goal \in Goals : OdometryComputePosition(s, goal)
    \/ \E arg \in ResetArgs : OdometryReset(arg)
    \/ \E s \in Readings, goal \in Goals : GyrodometryComputePosition(s, goal)
    \/ \E arg \in ResetArgs : GyrodometryReset(arg)

Spec == Init /\ [][Next]_vars

\* The same estimators, constructed for any robot, body width 0 included.
SpecAnyRobot == InitAnyRobot /\ [][Next]_vars

-----------------------------------------------------------------------------
(* Reading the history                                                     *)

Calls == 1..Len(log)

Computes == {i \in Calls : log[i].op = "compute"}

Resets == {i \in Calls : log[i].op = "reset"}

\* Index of the last reset call, 0 when there was none.
LastReset == IF Resets = {} THEN 0 ELSE CHOOSE i \in Resets : \A j \in Resets : j <= i

\* The compute_position calls since the last reset (or construction).
Ticks == SubSeq(log, LastReset + 1, Len(log))

\* The pose the last reset was given (np.zeros(3) when there was none).
StartPose == IF LastReset = 0 THEN Zeros ELSE log[LastReset].arg

\* self._pose after the i-th call, after construction for i = 0.
PoseAt(i) == IF i = 0 THEN Zeros ELSE log[i].after

DeadReckoning == kind \in {"Odometry", "Gyrodometry"}

XY(p) == [x |-> p.x, y |-> p.y]

\* Equal left and right encoder deltas.
Straight(e) == e.reading.encoders[1] = e.reading.encoders[2]

\* A multiple of 0.001.
Rounded3(v) == v % 10 = 0

\* The heading lies in (-pi, pi].
InCanonicalRange(th) == -PiMicro < 100 * th /\ 100 * th <= PiMicro

\* The pose the estimator of this kind reaches from p over the calls ts.
RECURSIVE Replay(_, _)
Replay(p, ts) ==
    IF ts = <<>> THEN p
    ELSE LET s == Head(ts).reading
             m == ComputeDeltaMotion(s.encoders, robot)
             i == IF kind = "Gyrodometry"
                  THEN Integrate(p, m.delta_path, ComputeRotation(s.gyroscope, dt), TRUE)
                  ELSE Integrate(p, m.delta_path, m.delta_beta, m.beta_finite)
         IN  Replay(i.pose, Tail(ts))

\* The sum of the delta_path values of the calls ts.
RECURSIVE SumPaths(_)
SumPaths(ts) == IF ts = <<>> THEN 0 ELSE Head(ts).delta_path + SumPaths(Tail(ts))

-----------------------------------------------------------------------------
(* The claims                                                              *)

\* C1: for Odometry and Gyrodometry the pose heading stored by every
\* compute_position call lies in the canonical range (-pi, pi].
C1_HeadingCanonical ==
    DeadReckoning =>
        \A i \in Computes : log[i].after.finite => InCanonicalRange(log[i].after.th)

\* The compute_position calls made right after a reset(p), with goal = (p.x, p.y).
FirstAtStart ==
    {i \in Computes : i > 1 /\ log[i - 1].op = "reset" /\ log[i].goal = XY(log[i - 1].arg)}

\* The encoders read in call e give delta_path = 0.
NoMotionRead(e) == ComputeDeltaMotion(e.reading.encoders, robot).delta_path = 0

\* C2 as stated: the first compute_position after reset(p), with goal = p.xy,
\* returns distance 0.0, for every start pose and whatever the encoders read.
C2_FirstDistanceZero ==
    DeadReckoning => \A i \in FirstAtStart : log[i].out.distance = 0

\* C2 amended: the first compute_position after reset(p), with goal = p.xy,
\* returns distance 0.0 when the encoders read at that call give
\* delta_path = 0 and p.x and p.y are multiples of 0.001.
C2_FirstDistanceZeroIfNoMotion ==
    DeadReckoning =>
        \A i \in FirstAtStart :
            (NoMotionRead(log[i]) /\ Rounded3(log[i - 1].arg.x) /\ Rounded3(log[i - 1].arg.y))
                => (log[i].out.finite /\ log[i].out.distance = 0)

C2_Witness ==
    /\ DeadReckoning
    /\ \E i \in FirstAtStart :
          /\ NoMotionRead(log[i])
          /\ Rounded3(log[i - 1].arg.x) /\ Rounded3(log[i - 1].arg.y)
          /\ log[i - 1].arg.x # 0
          /\ log[i].out.distance = 0

\* The encoder deltas the robot can report on its left wheel.
EncoderDeltas == {s.encoders[1] : s \in Readings}

\* Every call since the last reset read the encoder deltas (d, d).
StraightRun(d) ==
    /\ Len(Ticks) >= 1
    /\ \A k \in 1..Len(Ticks) : Ticks[k].reading.encoders = <<d, d>>

\* The example of the claim: wheel radius 0.02, one call reading (50, 50),
\* goal (1, 0), gives pose (1.0, 0.0, 0.0) and output (0.0, 0.0).
StraightExample ==
    (/\ WheelRadius(robot) = 200
     /\ StraightRun(50000)
     /\ Len(Ticks) = 1
     /\ Ticks[1].goal = [x |-> 10000, y |-> 0])
        => (pose = Pose(10000, 0, 0) /\ out = Polar(0, 0))

\* |pose.x - N * d * wheel_radius| in units of 1e-7 m, N the number of calls.
StraightError(d) == Abs(1000 * pose.x - Len(Ticks) * d * WheelRadius(robot))

\* C3 as stated: Odometry from pose (0, 0, 0), N >= 1 calls that each read
\* (d, d): heading 0, y 0 and x within 0.001 of N * d * wheel_radius.
C3_StraightLine ==
    (kind = "Odometry" /\ StartPose = Zeros) =>
        /\ \A d \in EncoderDeltas :
              StraightRun(d) =>
                  (pose.th = 0 /\ pose.y = 0 /\ StraightError(d) <= 10000)
        /\ StraightExample

\* C3 amended: Odometry from pose (0, 0, 0), N >= 1 calls that each read
\* (d, d): heading 0, y 0 and x within N * 0.0005 of N * d * wheel_radius
\* (each call rounds its delta_path to 3 decimals); the example holds.
C3_StraightLineWithinHalfPerTick ==
    (kind = "Odometry" /\ StartPose = Zeros) =>
        /\ \A d \in EncoderDeltas :
              StraightRun(d) =>
                  (pose.th = 0 /\ pose.y = 0 /\ StraightError(d) <= Len(Ticks) * 5000)
        /\ StraightExample

C3_Witness ==
    /\ kind = "Odometry"
    /\ StartPose = Zeros
    /\ StraightRun(50000)
    /\ Len(Ticks) = 1
    /\ Ticks[1].goal = [x |-> 10000, y |-> 0]
    /\ pose = Pose(10000, 0, 0)
    /\ out = Polar(0, 0)

\* The calls that read equal encoder deltas and a gyroscope value other than 0.
DivergenceTicks == {i \in Computes : Straight(log[i]) /\ log[i].reading.gyroscope # 0}

\* The heading Odometry stores when it makes call e from the pose e began at.
OdometryHeading(e) ==
    LET m == ComputeDeltaMotion(e.reading.encoders, robot)
    IN  Integrate(e.before, m.delta_path, m.delta_beta, m.beta_finite).pose.th

\* round(w * dt, 3) of the gyroscope value read in call e.
GyroRotation(e) == 10 * RoundDiv(e.reading.gyroscope * dt, 1000)

\* C4 as stated: on a call reading (d, d) and w # 0, Odometry's heading is
\* unchanged, Gyrodometry's changes by round(w * dt, 3), and the two differ.
C4_Divergence ==
    \A i \in DivergenceTicks :
        /\ kind = "Odometry" => log[i].after.th = log[i].before.th
        /\ kind = "Gyrodometry" =>
              /\ log[i].after.th = log[i].before.th + GyroRotation(log[i])
              /\ log[i].after.th # OdometryHeading(log[i])

\* C4 amended: on a call reading (d, d) and w # 0 from heading th, Odometry
\* stores round(th, 3) and Gyrodometry round(th + round(w * dt, 3), 3); for th
\* a multiple of 0.001 the two differ exactly when round(w * dt, 3) # 0.  On
\* every Gyrodometry call, whatever the encoders read, the heading stored is
\* round(th + round(w * dt, 3), 3).
C4_DivergenceIfRotationRounds ==
    /\ \A i \in DivergenceTicks :
          /\ kind = "Odometry" => log[i].after.th = Round3(log[i].before.th)
          /\ (kind = "Gyrodometry" /\ Rounded3(log[i].before.th)) =>
                /\ OdometryHeading(log[i]) = log[i].before.th
                /\ log[i].after.th = log[i].before.th + GyroRotation(log[i])
                /\ (log[i].after.th # OdometryHeading(log[i])) <=> (GyroRotation(log[i]) # 0)
    /\ kind = "Gyrodometry" =>
          \A i \in Computes :
              log[i].after.th = Round3(log[i].before.th + GyroRotation(log[i]))

C4_Witness ==
    /\ kind = "Gyrodometry"
    /\ \E i \in DivergenceTicks :
          /\ GyroRotation(log[i]) # 0
          /\ log[i].after.th # OdometryHeading(log[i])
    /\ \E i \in DivergenceTicks :
          /\ GyroRotation(log[i]) = 0
          /\ log[i].after.th = OdometryHeading(log[i])

\* C5: two Ideal.compute_position calls that see the same ground-truth pose
\* and the same goal return the same output, whatever the encoders and the
\* gyroscope read, whatever was called before and whatever pose reset stored.
C5_IdealFunctionOfTruthAndGoal ==
    kind = "Ideal" =>
        \A i \in Computes, j \in Computes :
            (log[i].reading.pose = log[j].reading.pose /\ log[i].goal = log[j].goal)
                => log[i].out = log[j].out

C5_Witness ==
    /\ kind = "Ideal"
    /\ \E i \in Computes, j \in Computes :
          /\ i < j
          /\ log[i].reading.pose = log[j].reading.pose
          /\ log[i].goal = log[j].goal
          /\ log[i].reading.encoders # log[j].reading.encoders
          /\ log[i].reading.gyroscope # log[j].reading.gyroscope
          /\ log[i].before # log[j].before
          /\ log[i].out = log[j].out

\* C6: an estimator for a robot of body width 0 is rejected at construction,
\* so no compute_position call divides by a body width of 0.
C6_ZeroBodyWidthRejected == ~divided_by_zero

\* The calls whose goal is the position the output was computed from.
AtGoal == {i \in Computes : log[i].position.finite /\ log[i].goal = XY(log[i].position)}

\* C7 as stated: with the goal at the estimated position, compute_position
\* returns distance 0 and heading error 0, for every pose heading.
C7_AtGoalHeadingZero ==
    \A i \in AtGoal :
        log[i].out.finite /\ log[i].out.distance = 0 /\ log[i].out.heading_angle = 0

\* C7 amended: with the goal at the estimated position, compute_position
\* raises no error and returns distance 0 and heading error -th, the negated
\* pose heading (0 only when th is 0).
C7_AtGoalHeadingIsMinusPoseHeading ==
    \A i \in AtGoal :
        /\ log[i].out.finite
        /\ log[i].out.distance = 0
        /\ log[i].out.heading_angle = -log[i].position.th

C7_Witness ==
    \E i \in AtGoal :
        /\ log[i].position.th # 0
        /\ log[i].out.distance = 0
        /\ log[i].out.heading_angle = -log[i].position.th

\* Calls i+1..j are straight (equal left and right deltas) and the second
\* half feeds the negated deltas of the first half in reverse order.
ForthAndBack(i, j) ==
    /\ i < j
    /\ (j - i) % 2 = 0
    /\ \A k \in 1..(j - i) :
          /\ log[i + k].op = "compute"
          /\ Straight(log[i + k])
          /\ log[j + 1 - k].reading.encoders[1] = -log[i + k].reading.encoders[1]

\* Within 0.001 in x, y and heading.
Near(p, q) ==
    /\ p.finite /\ q.finite
    /\ Abs(p.x - q.x) <= 10
    /\ Abs(p.y - q.y) <= 10
    /\ Abs(p.th - q.th) <= 10

C9_ResetForgetsThePast ==
    DeadReckoning =>
        /\ (LastReset > 0 /\ LastReset = Len(log)) =>
              /\ pose = log[LastReset].arg
              /\ sum_path = 0
              /\ previous_angular_velocity = 0
        /\ sum_path = SumPaths(Ticks)
        /\ pose = Replay(StartPose, Ticks)
        /\ Len(Ticks) > 0 => out = PolarCoordinates(pose, Ticks[Len(Ticks)].goal)
        /\ (kind = "Gyrodometry" /\ Len(Ticks) > 0) =>
              previous_angular_velocity = Ticks[Len(Ticks)].reading.gyroscope

C9_Witness ==
    /\ kind = "Gyrodometry"
    /\ LastReset > 1
    /\ LastReset < Len(log)
    /\ log[LastReset - 1].op = "compute"
    /\ log[LastReset - 1].delta_path # 0
    /\ log[LastReset - 1].reading.gyroscope # 0
    /\ log[LastReset].before # log[LastReset].arg
    /\ sum_path = SumPaths(Ticks)
    /\ pose = Replay(StartPose, Ticks)

\* C10: the array the caller passed to reset keeps its original values over
\* the compute_position calls of Odometry and Gyrodometry.
C10_CallerArrayUntouched ==
    (DeadReckoning /\ caller.made) => caller.obj = caller.orig

====
